---- MODULE Spec2Model ----
(***************************************************************************)
(* Model of vector3d.h: the concrete vector Vector3D<S>, the expression    *)
(* template nodes (sum, difference, negation, scalar multiply, scalar      *)
(* divide, cross product) and the operators that build them.               *)
(*                                                                         *)
(* The scalar type S is instantiated with a signed integer type            *)
(* (Vector3D<int>): + - * are exact, / truncates toward zero and           *)
(* std::sqrt's result is truncated when it is converted back to S.         *)
(* Values stay far from the limits of int, so no operation overflows.      *)
(*                                                                         *)
(* An expression node holds references to its operands.  A reference to a  *)
(* concrete vector is modelled by the vector's name, and is dereferenced   *)
(* in the store `vec` at the moment an accessor runs.                      *)
(*                                                                         *)
(* A read through a reference whose object is destroyed is undefined: it   *)
(* can produce any scalar, independently for each read.  Such a value is   *)
(* not enumerated; it is marked indeterminate: Indet says which values     *)
(* of an expression are, `undef` which stored components are, and the      *)
(* `ind` field which components of a returned vector are.  The number      *)
(* recorded for an indeterminate value is 0 and carries no meaning.        *)
(***************************************************************************)
EXTENDS Integers, Sequences, FiniteSets

VARIABLES
    vec,      \* the concrete vectors: name -> [x, y, z] (m_x, m_y, m_z)
    node,     \* the expression node most recently built, or NoNode
    atBuild,  \* history: the store at the moment `node` was built
    last,     \* the operation executed last: [op, target, c, s]
    ret,      \* what that operation returned: [kind, val]
    reads,    \* how often it read each component of each concrete vector
              \* through the accessors x(), y(), z()
    calls,    \* how often it invoked x(), y(), z() on the expressions it
              \* operates on
    pc,       \* position of the calling program
    undef     \* the stored components <<name, c>> whose value is indeterminate

vars == <<vec, node, atBuild, last, ret, reads, calls, pc, undef>>

Names == {"a", "b", "c"}
Comps == {"x", "y", "z"}

\* Largest scalar the vectors are constructed from.
MaxVal == 1

InitScalars == (-1)..MaxVal
NatScalars == 0..MaxVal
\* Scalars passed to operator*, operator/, *=, /=, setConstant and written
\* through the writable accessors.
ArgScalars == {-1, 2}

(***************************************************************************)
(* Scalar arithmetic of S = int.                                           *)
(***************************************************************************)
Abs(n) == IF n < 0 THEN -n ELSE n

\* C++ integer division: the quotient truncated toward zero (d # 0).
TruncDiv(n, d) ==
    IF (n >= 0) = (d > 0) THEN Abs(n) \div Abs(d) ELSE -(Abs(n) \div Abs(d))

\* std::sqrt(n) converted to S: the largest r with r * r <= n (n >= 0).
ISqrt(n) == CHOOSE r \in 0..n : r * r <= n /\ (r + 1) * (r + 1) > n

(***************************************************************************)
(* Concrete vector: constructors.                                          *)
(***************************************************************************)
Vector3D_Default == [x |-> 0, y |-> 0, z |-> 0]
Vector3D_XYZ(x, y, z) == [x |-> x, y |-> y, z |-> z]
Vector3D_Value(value) == [x |-> value, y |-> value, z |-> value]

(***************************************************************************)
(* Expression nodes.  A node is a record; `op` tells its class.            *)
(***************************************************************************)
NoNode == [op |-> "none"]

\* A concrete vector used as an operand: Vector3D<S> is a Vector3D_Expr.
Leaf(n) == [op |-> "vec", name |-> n]

\* A reference bound to a temporary that is already destroyed.
Stale == [op |-> "stale"]

Vector3D_SumExpr(l, r) == [op |-> "sum", l |-> l, r |-> r]
Vector3D_DiffExpr(l, r) == [op |-> "diff", l |-> l, r |-> r]
Vector3D_MultExpr(v, s) == [op |-> "mult", v |-> v, s |-> s]
Vector3D_DivExpr(v, s) == [op |-> "div", v |-> v, s |-> s]
Vector3D_CrossExpr(a, b) == [op |-> "cross", a |-> a, b |-> b]

\* The constructor takes `const Vector3D_Expr<S, E>& vec` but the member is
\* `const E& m_vec`: a base cannot bind to a reference to the derived class, so
\* for E = Vector3D<S> the converting constructor makes a temporary copy of
\* vec, m_vec binds to it, and the temporary dies when the constructor
\* returns.  (For any other E the constructor is ill-formed.)
Vector3D_NegateExpr(v) == [op |-> "neg", v |-> Stale]

\* The operators that build the nodes.
OperatorPlus(augend, addend) == Vector3D_SumExpr(augend, addend)
OperatorMinus(minuend, subtrahend) == Vector3D_DiffExpr(minuend, subtrahend)
OperatorTimes(vector, scalar) == Vector3D_MultExpr(vector, scalar)
OperatorTimesLeft(scalar, vector) == Vector3D_MultExpr(vector, scalar)
OperatorDiv(vector, scalar) == Vector3D_DivExpr(vector, scalar)
Cross(self, other) == Vector3D_CrossExpr(self, other)

\* The name `v` in the body of unary operator- is not the parameter
\* (`vector`): it can only name a Vector3D<S> declared outside the header.
OutOfScopeV == [op |-> "extern", name |-> "v"]
OperatorNeg(vector) == Vector3D_NegateExpr(OutOfScopeV)

(***************************************************************************)
(* Accessors x(), y(), z() of an expression: component c of e, with the    *)
(* concrete vectors as they are in st.  Comp gives the number, Indet tells *)
(* whether it is indeterminate.                                            *)
(***************************************************************************)
RECURSIVE Comp(_, _, _)
\* Slip: the y component with its two products exchanged.
CrossCompSlip(e, c, st) ==
    CASE c = "x" -> Comp(e.a, "y", st) * Comp(e.b, "z", st)
                    - Comp(e.b, "y", st) * Comp(e.a, "z", st)
      [] c = "y" -> Comp(e.b, "z", st) * Comp(e.a, "x", st)
                    - Comp(e.a, "z", st) * Comp(e.b, "x", st)
      [] c = "z" -> Comp(e.a, "x", st) * Comp(e.b, "y", st)
                    - Comp(e.b, "x", st) * Comp(e.a, "y", st)
CrossComp(e, c, st) ==
    CASE c = "x" -> Comp(e.a, "y", st) * Comp(e.b, "z", st)
                    - Comp(e.b, "y", st) * Comp(e.a, "z", st)
      [] c = "y" -> Comp(e.a, "z", st) * Comp(e.b, "x", st)
                    - Comp(e.b, "z", st) * Comp(e.a, "x", st)
      [] c = "z" -> Comp(e.a, "x", st) * Comp(e.b, "y", st)
                    - Comp(e.b, "x", st) * Comp(e.a, "y", st)

\* Slip: the sum node computing the difference.
SumCompSlip(e, c, st) == Comp(e.l, c, st) - Comp(e.r, c, st)
SumComp(e, c, st) == Comp(e.l, c, st) + Comp(e.r, c, st)
DiffComp(e, c, st) == Comp(e.l, c, st) - Comp(e.r, c, st)
NegComp(e, c, st) == -Comp(e.v, c, st)
MultComp(e, c, st) == Comp(e.v, c, st) * e.s
DivComp(e, c, st) == TruncDiv(Comp(e.v, c, st), e.s)

Comp(e, c, st) ==
    CASE e.op = "vec" -> st[e.name][c]
      [] e.op = "stale" -> 0
      [] e.op = "sum" -> SumComp(e, c, st)
      [] e.op = "diff" -> DiffComp(e, c, st)
      [] e.op = "neg" -> NegComp(e, c, st)
      [] e.op = "mult" -> MultComp(e, c, st)
      [] e.op = "div" -> DivComp(e, c, st)
      [] e.op = "cross" -> CrossComp(e, c, st)

\* The components a cross-product accessor multiplies: x() reads y and z of
\* both operands, y() reads z and x, z() reads x and y.
CrossReads(c) ==
    CASE c = "x" -> <<"y", "z">>
      [] c = "y" -> <<"z", "x">>
      [] c = "z" -> <<"x", "y">>

\* Component c of e is indeterminate: its evaluation reads through a stale
\* reference, or reads a stored component that is indeterminate (u).
RECURSIVE Indet(_, _, _)
Indet(e, c, u) ==
    CASE e.op = "vec" -> <<e.name, c>> \in u
      [] e.op = "stale" -> TRUE
      [] e.op \in {"sum", "diff"} -> Indet(e.l, c, u) \/ Indet(e.r, c, u)
      [] e.op \in {"neg", "mult", "div"} -> Indet(e.v, c, u)
      [] e.op = "cross" ->
            \E k \in {CrossReads(c)[1], CrossReads(c)[2]} :
                Indet(e.a, k, u) \/ Indet(e.b, k, u)

\* How often evaluating component c of e reads component k of vector n.
RECURSIVE ReadCount(_, _, _, _)
ReadCount(e, c, n, k) ==
    CASE e.op = "vec" -> IF e.name = n /\ c = k THEN 1 ELSE 0
      [] e.op = "stale" -> 0
      [] e.op \in {"sum", "diff"} -> ReadCount(e.l, c, n, k) + ReadCount(e.r, c, n, k)
      [] e.op \in {"neg", "mult", "div"} -> ReadCount(e.v, c, n, k)
      [] e.op = "cross" ->
            LET p == CrossReads(c)
            IN  ReadCount(e.a, p[1], n, k) + ReadCount(e.b, p[2], n, k)
                + ReadCount(e.b, p[1], n, k) + ReadCount(e.a, p[2], n, k)

\* The concrete vectors an expression refers to.
RECURSIVE Operands(_)
Operands(e) ==
    CASE e.op = "vec" -> {e.name}
      [] e.op = "stale" -> {}
      [] e.op \in {"sum", "diff"} -> Operands(e.l) \cup Operands(e.r)
      [] e.op \in {"neg", "mult", "div"} -> Operands(e.v)
      [] e.op = "cross" -> Operands(e.a) \cup Operands(e.b)

RECURSIVE HasStale(_)
HasStale(e) ==
    CASE e.op = "vec" -> FALSE
      [] e.op = "stale" -> TRUE
      [] e.op \in {"sum", "diff"} -> HasStale(e.l) \/ HasStale(e.r)
      [] e.op \in {"neg", "mult", "div"} -> HasStale(e.v)
      [] e.op = "cross" -> HasStale(e.a) \/ HasStale(e.b)

Vecs(S) == {Vector3D_XYZ(x, y, z) : x \in S, y \in S, z \in S}

NoReads == [n \in Names, k \in Comps |-> 0]
NoCalls == [c \in Comps |-> 0]
Count(seq, c) == Cardinality({i \in DOMAIN seq : seq[i] = c})
CallsOf(seq) == [c \in Comps |-> Count(seq, c)]
RECURSIVE SumReads(_, _, _, _)
SumReads(e, seq, n, k) ==
    IF seq = <<>> THEN 0
    ELSE ReadCount(e, Head(seq), n, k) + SumReads(e, Tail(seq), n, k)
ReadsOf(e, seq) == [n \in Names, k \in Comps |-> SumReads(e, seq, n, k)]
AddCounts(f, h) == [i \in DOMAIN f |-> f[i] + h[i]]

(***************************************************************************)
(* Abstract vector interface: dot, squaredNorm, norm.                      *)
(***************************************************************************)
Dot(e, vector, st) ==
    Comp(e, "x", st) * Comp(vector, "x", st)
    + Comp(e, "y", st) * Comp(vector, "y", st)
    + Comp(e, "z", st) * Comp(vector, "z", st)
SquaredNorm(e, st) == Dot(e, e, st)
Norm(e, st) == ISqrt(SquaredNorm(e, st))
\* dot invokes x(), y() and z() of this expression and of its argument.
DotOrder == <<"x", "y", "z">>
DotReads(e, vector) == AddCounts(ReadsOf(e, DotOrder), ReadsOf(vector, DotOrder))
DotCalls == AddCounts(CallsOf(DotOrder), CallsOf(DotOrder))
\* dot reads x, y and z of both operands: one indeterminate read makes the
\* result indeterminate.
DotIndet(e, vector, u) == \E k \in Comps : Indet(e, k, u) \/ Indet(vector, k, u)

(***************************************************************************)
(* Concrete vector: construction from an expression.                       *)
(***************************************************************************)
\* The accessors the mem-initializers of m_x, m_y, m_z invoke, in order.
\* Slip: m_y initialised from vector.x().
CtorCallsSlip == <<"x", "x", "z">>
CtorCalls == <<"x", "y", "z">>
Vector3D_FromExpr(e, st) ==
    [x |-> Comp(e, CtorCalls[1], st),
     y |-> Comp(e, CtorCalls[2], st),
     z |-> Comp(e, CtorCalls[3], st)]
\* The components of the new vector that are indeterminate.
FromExprIndet(e, u) == {k \in Comps : Indet(e, k, u)}

\* The accessor calls made while node e is built.  The constructor of a
\* negation node copies its argument with the converting constructor, which
\* invokes x(), y() and z() of the argument (the vector v, which is none of
\* the vectors of the store); the other constructors bind references and
\* invoke nothing.
RECURSIVE BuildCalls(_)
BuildCalls(e) ==
    CASE e.op \in {"vec", "stale"} -> NoCalls
      [] e.op \in {"sum", "diff"} -> AddCounts(BuildCalls(e.l), BuildCalls(e.r))
      [] e.op = "neg" -> AddCounts(CallsOf(CtorCalls), BuildCalls(e.v))
      [] e.op \in {"mult", "div"} -> BuildCalls(e.v)
      [] e.op = "cross" -> AddCounts(BuildCalls(e.a), BuildCalls(e.b))

(***************************************************************************)
(* Concrete vector: operator== and normalized().                           *)
(***************************************************************************)
\* An operand of a built-in ==: a scalar value, or the name of a member
\* function that is not called.
ScalarOperand(s) == [kind |-> "scalar", val |-> s]
MemberFunction(c) == [kind |-> "memfn", val |-> c]
\* The right-hand operands of the three comparisons: `vector.x`, `vector.y`
\* and `vector.z` name the accessors x, y, z and do not call them.
EqRhs(vector, c) == MemberFunction(c)
\* No build has a comparison of a scalar with the name of an overloaded
\* member function: an instantiation of operator== is ill-formed.
OperatorEq(self, vector) ==
    IF \A c \in Comps : EqRhs(vector, c).kind = "scalar"
    THEN [kind |-> "bool",
          val |-> \A c \in Comps : ScalarOperand(self[c]).val = EqRhs(vector, c).val]
    ELSE [kind |-> "ill_formed", val |-> FALSE]

\* normalized() with n the norm.  Integer division by a zero norm is
\* undefined; no value is returned.
Normalized(self, n) ==
    IF n = 0 THEN [kind |-> "undefined", val |-> Vector3D_Default]
    ELSE [kind |-> "vector",
          val |-> Vector3D_XYZ(TruncDiv(self.x, n), TruncDiv(self.y, n),
                               TruncDiv(self.z, n)),
          ind |-> {}]

(***************************************************************************)
(* Concrete vector: the mutating operations.  Each takes the store and the *)
(* name of the vector it is invoked on, and returns the store it leaves.   *)
(***************************************************************************)
\* Slip: every vector of the store overwritten.
SetConstantSlip(st, t, scalar) ==
    [n \in DOMAIN st |-> [x |-> scalar, y |-> scalar, z |-> scalar]]
SetConstant(st, t, scalar) ==
    [st EXCEPT ![t] = [x |-> scalar, y |-> scalar, z |-> scalar]]

\* m_x, m_y and m_z are updated one after the other; each accessor of the
\* argument runs on the store as the previous update left it.
\* Slip: m_y updated from vector.x().
OperatorPlusAssignSlip(st, t, e) ==
    LET s1 == [st EXCEPT ![t].x = @ + Comp(e, "x", st)]
        s2 == [s1 EXCEPT ![t].y = @ + Comp(e, "x", s1)]
    IN  [s2 EXCEPT ![t].z = @ + Comp(e, "z", s2)]
OperatorPlusAssign(st, t, e) ==
    LET s1 == [st EXCEPT ![t].x = @ + Comp(e, "x", st)]
        s2 == [s1 EXCEPT ![t].y = @ + Comp(e, "y", s1)]
    IN  [s2 EXCEPT ![t].z = @ + Comp(e, "z", s2)]

\* Slip: m_z updated with += instead of -=.
OperatorMinusAssignSlip(st, t, e) ==
    LET s1 == [st EXCEPT ![t].x = @ - Comp(e, "x", st)]
        s2 == [s1 EXCEPT ![t].y = @ - Comp(e, "y", s1)]
    IN  [s2 EXCEPT ![t].z = @ + Comp(e, "z", s2)]
OperatorMinusAssign(st, t, e) ==
    LET s1 == [st EXCEPT ![t].x = @ - Comp(e, "x", st)]
        s2 == [s1 EXCEPT ![t].y = @ - Comp(e, "y", s1)]
    IN  [s2 EXCEPT ![t].z = @ - Comp(e, "z", s2)]

\* The indeterminate components after t += e or t -= e: component k of t is
\* indeterminate if it was, or if e's k is, on the store as the previous
\* update left it.
AccumulateIndet(u, t, e) ==
    LET u1 == IF Indet(e, "x", u) THEN u \cup {<<t, "x">>} ELSE u
        u2 == IF Indet(e, "y", u1) THEN u1 \cup {<<t, "y">>} ELSE u1
    IN  IF Indet(e, "z", u2) THEN u2 \cup {<<t, "z">>} ELSE u2

\* The store with 0 recorded for every indeterminate component.
Determinate(st, u) ==
    [n \in DOMAIN st |->
        [x |-> IF <<n, "x">> \in u THEN 0 ELSE st[n].x,
         y |-> IF <<n, "y">> \in u THEN 0 ELSE st[n].y,
         z |-> IF <<n, "z">> \in u THEN 0 ELSE st[n].z]]

\* u without the components of t.
Cleared(u, t) == {p \in u : p[1] # t}

OperatorDivAssign(st, t, scalar) ==
    [st EXCEPT ![t] = [x |-> TruncDiv(@.x, scalar), y |-> TruncDiv(@.y, scalar),
                       z |-> TruncDiv(@.z, scalar)]]

OperatorTimesAssign(st, t, scalar) ==
    [st EXCEPT ![t] = [x |-> @.x * scalar, y |-> @.y * scalar, z |-> @.z * scalar]]

\* t.x() = scalar (likewise y, z) through the writable accessor.
WriteAccessor(st, t, c, scalar) == [st EXCEPT ![t][c] = scalar]

\* stream >> t: the extractions into t.x(), t.y(), t.z() run in this order.
\* `in` is the text of the stream: the scalars it starts with (tokens) and
\* what follows them ("eof", or "bad" for text that is no scalar).  An
\* extraction that meets text that is no scalar stores 0 and fails the
\* stream; on a failed or exhausted stream an extraction stores nothing.
StreamOrder == <<"x", "y", "z">>
Extracted(in) ==
    {i \in 1..3 : i <= Len(in.tokens) \/ (i = Len(in.tokens) + 1 /\ in.then = "bad")}
ExtractedValue(in, i) == IF i <= Len(in.tokens) THEN in.tokens[i] ELSE 0
OperatorIn(st, t, in) ==
    LET w(s, i) == IF i \in Extracted(in)
                   THEN WriteAccessor(s, t, StreamOrder[i], ExtractedValue(in, i))
                   ELSE s
    IN  w(w(w(st, 1), 2), 3)
StreamFailed(in) == Len(in.tokens) < 3

\* t = n: the implicitly-declared copy assignment copies m_x, m_y, m_z.
CopyAssign(st, t, from) == [st EXCEPT ![t] = from]

\* t = e for an expression e: the converting constructor evaluates e into a
\* temporary vector, which the copy assignment then copies into t.
AssignExpr(st, t, e) == CopyAssign(st, t, Vector3D_FromExpr(e, st))

\* normalized() is a const member: it leaves the store as it is.
\* Slip: dividing this vector by its norm in place.
NormalizedStoreSlip(st, t, n) == IF n = 0 THEN st ELSE OperatorDivAssign(st, t, n)
NormalizedStore(st, t, n) == st

\* A node keeps references (m_l, m_r, m_vec, a, b) to its operands, so an
\* accessor reads the operands as they are when it runs.
\* Slip: a node that copies its operands when it is built.
ReferencedSlip(now, built) == built
Referenced(now, built) == now

(***************************************************************************)
(* State machine.  The calling program constructs the vectors and then     *)
(* either executes one statement (pc: start -> done), or names a node      *)
(* (start -> held), reads it, changes a vector (held -> mutated) and reads *)
(* the node again.                                                         *)
(***************************************************************************)
A == Leaf("a")
B == Leaf("b")
C == Leaf("c")

Op(o, t, c, s) == [op |-> o, target |-> t, c |-> c, s |-> s]
Scalar(s) == [kind |-> "scalar", val |-> s]
Vector(v) == [kind |-> "vector", val |-> v, ind |-> {}]
\* A reference to vector n (*this), to component c of vector n, to the stream.
Ref(n) == [kind |-> "ref", val |-> n]
CompRef(n, c) == [kind |-> "compref", val |-> <<n, c>>]
StreamRef(failed) == [kind |-> "stream", val |-> failed]
\* A scalar, or a vector with the components i, of indeterminate value.
Indeterminate == [kind |-> "indeterminate", val |-> 0]
ScalarOf(s, i) == IF i THEN Indeterminate ELSE Scalar(s)
VectorOf(v, i) ==
    [kind |-> "vector",
     val |-> [x |-> IF "x" \in i THEN 0 ELSE v.x,
              y |-> IF "y" \in i THEN 0 ELSE v.y,
              z |-> IF "z" \in i THEN 0 ELSE v.z],
     ind |-> i]

InitRest ==
    /\ node = NoNode
    /\ atBuild = vec
    /\ last = Op("init", "-", "-", 0)
    /\ ret = [kind |-> "none", val |-> 0]
    /\ reads = NoReads
    /\ calls = NoCalls
    /\ pc = "start"
    /\ undef = {}

\* The vectors as the constructors leave them: a from three scalars, b from
\* three non-negative scalars, c default-constructed or from one scalar; and
\* the vectors (1,2,3), (4,5,6).
InitEval ==
    /\ vec \in {[a |-> va, b |-> vb, c |-> vc] :
                   va \in Vecs(InitScalars), vb \in Vecs(NatScalars),
                   vc \in {Vector3D_Default} \cup {Vector3D_Value(s) : s \in NatScalars}}
               \cup {[a |-> Vector3D_XYZ(1, 2, 3), b |-> Vector3D_XYZ(4, 5, 6),
                      c |-> Vector3D_Default]}
    /\ InitRest

\* The chained expression l + m * 2 - r.
Chained(l, m, r) == OperatorMinus(OperatorPlus(l, OperatorTimes(m, 2)), r)

\* The expressions of the single-statement runs.
EvalExprs ==
    {Chained(A, B, C), Chained(C, A, B), Chained(A, A, A),
     OperatorPlus(OperatorPlus(A, B), C), OperatorPlus(A, OperatorPlus(B, C)),
     OperatorPlus(A, B), OperatorPlus(B, A), OperatorMinus(A, B), OperatorMinus(A, A),
     Cross(A, B), Cross(B, A), Cross(A, A), Cross(OperatorPlus(A, C), B)}
    \cup {OperatorTimes(A, s) : s \in ArgScalars}
    \cup {OperatorTimesLeft(s, B) : s \in ArgScalars}
    \cup {OperatorDiv(A, s) : s \in ArgScalars}
    \cup {OperatorDiv(OperatorTimes(A, s), s) : s \in ArgScalars}

\* Vector3D<S> r(e): construction from an expression.
Construct(e) ==
    /\ pc = "start" /\ pc' = "done"
    /\ ret' = VectorOf(Vector3D_FromExpr(e, vec), FromExprIndet(e, undef))
    /\ node' = e /\ atBuild' = vec
    /\ last' = Op("construct", "-", "-", 0)
    /\ reads' = ReadsOf(e, CtorCalls)
    /\ calls' = AddCounts(BuildCalls(e), CallsOf(CtorCalls))
    /\ UNCHANGED <<vec, undef>>

\* Vector3D<S> r(-n).
UnaryMinus(n) ==
    LET e == OperatorNeg(Leaf(n)) IN
    /\ pc = "start" /\ pc' = "done"
    /\ ret' = VectorOf(Vector3D_FromExpr(e, vec), FromExprIndet(e, undef))
    /\ node' = e /\ atBuild' = vec
    /\ last' = Op("negate", n, "-", 0)
    /\ reads' = ReadsOf(e, CtorCalls)
    /\ calls' = AddCounts(BuildCalls(e), CallsOf(CtorCalls))
    /\ UNCHANGED <<vec, undef>>

\* e.dot(n), e.squaredNorm(), e.norm().
DotOp(e, n) ==
    /\ pc = "start" /\ pc' = "done"
    /\ ret' = ScalarOf(Dot(e, Leaf(n), vec), DotIndet(e, Leaf(n), undef))
    /\ node' = e /\ atBuild' = vec
    /\ last' = Op("dot", n, "-", 0)
    /\ reads' = DotReads(e, Leaf(n)) /\ calls' = DotCalls
    /\ UNCHANGED <<vec, undef>>

SquaredNormOp(e) ==
    /\ pc = "start" /\ pc' = "done"
    /\ ret' = ScalarOf(SquaredNorm(e, vec), DotIndet(e, e, undef))
    /\ node' = e /\ atBuild' = vec
    /\ last' = Op("squaredNorm", "-", "-", 0)
    /\ reads' = DotReads(e, e) /\ calls' = DotCalls
    /\ UNCHANGED <<vec, undef>>

NormOp(e) ==
    /\ pc = "start" /\ pc' = "done"
    /\ ret' = ScalarOf(Norm(e, vec), DotIndet(e, e, undef))
    /\ node' = e /\ atBuild' = vec
    /\ last' = Op("norm", "-", "-", 0)
    /\ reads' = DotReads(e, e) /\ calls' = DotCalls
    /\ UNCHANGED <<vec, undef>>

\* n.normalized()
NormalizedOp(n) ==
    /\ pc = "start" /\ pc' = "done"
    /\ ret' = IF DotIndet(Leaf(n), Leaf(n), undef)
              THEN VectorOf(Vector3D_Default, Comps)
              ELSE Normalized(vec[n], Norm(Leaf(n), vec))
    /\ vec' = NormalizedStore(vec, n, Norm(Leaf(n), vec))
    /\ last' = Op("normalized", n, "-", 0)
    /\ reads' = DotReads(Leaf(n), Leaf(n)) /\ calls' = DotCalls
    /\ UNCHANGED <<node, atBuild, undef>>

\* n == m
EqualsOp(n, m) ==
    /\ pc = "start" /\ pc' = "done"
    /\ ret' = OperatorEq(vec[n], vec[m])
    /\ last' = Op("==", n, m, 0)
    /\ reads' = NoReads /\ calls' = NoCalls
    /\ UNCHANGED <<vec, node, atBuild, undef>>

NextEval ==
    \/ \E e \in EvalExprs : Construct(e)
    \/ \E n \in Names : UnaryMinus(n)
    \/ \E e \in {A, OperatorPlus(A, B)}, n \in {"a", "b"} : DotOp(e, n)
    \/ \E e \in {A, OperatorMinus(A, B)} : SquaredNormOp(e)
    \/ \E e \in {A, OperatorMinus(A, B)} : NormOp(e)
    \/ \E n \in Names : NormalizedOp(n)
    \/ \E n \in Names, m \in Names : EqualsOp(n, m)

SpecEval == InitEval /\ [][NextEval]_vars

(***************************************************************************)
(* Runs that name a node, read it, change a vector and read it again.      *)
(***************************************************************************)
\* a from three scalars, b from one scalar, c default-constructed; and the
\* vectors (1,2,3), (4,5,6).
Init ==
    /\ vec \in {[a |-> va, b |-> vb, c |-> Vector3D_Default] :
                   va \in Vecs(InitScalars),
                   vb \in {Vector3D_Value(s) : s \in InitScalars}}
               \cup {[a |-> Vector3D_XYZ(1, 2, 3), b |-> Vector3D_XYZ(4, 5, 6),
                      c |-> Vector3D_Default]}
    /\ InitRest

\* The nodes the program names (every node of the tree is a named object,
\* so every reference in it stays valid).
HoldExprs ==
    {OperatorPlus(A, B), OperatorMinus(B, A), Cross(A, B), Cross(B, A),
     OperatorTimes(A, 2), OperatorDiv(A, 2), Chained(A, B, C),
     OperatorPlus(A, Cross(B, C)), Cross(OperatorPlus(A, C), B),
     OperatorNeg(A)}

\* auto e = <expression>;
Hold(e) ==
    /\ pc = "start" /\ pc' = "held"
    /\ node' = e /\ atBuild' = vec
    /\ last' = Op("hold", "-", "-", 0)
    /\ ret' = [kind |-> "none", val |-> 0]
    /\ reads' = NoReads /\ calls' = BuildCalls(e)
    /\ UNCHANGED <<vec, undef>>

\* e.x(), e.y(), e.z()
Accessor(c) ==
    /\ pc \in {"held", "mutated"}
    /\ ret' = ScalarOf(Comp(node, c, Referenced(vec, atBuild)),
                       Indet(node, c, undef))
    /\ last' = Op("accessor", "-", c, 0)
    /\ reads' = ReadsOf(node, <<c>>)
    /\ calls' = CallsOf(<<c>>)
    /\ UNCHANGED <<vec, node, atBuild, pc, undef>>

\* e.dot(n), e.squaredNorm(), e.norm() on the named node.
DotNode(n) ==
    /\ pc = "held"
    /\ ret' = ScalarOf(Dot(node, Leaf(n), Referenced(vec, atBuild)),
                       DotIndet(node, Leaf(n), undef))
    /\ last' = Op("dot", n, "-", 0)
    /\ reads' = DotReads(node, Leaf(n)) /\ calls' = DotCalls
    /\ UNCHANGED <<vec, node, atBuild, pc, undef>>

SquaredNormNode ==
    /\ pc = "held"
    /\ ret' = ScalarOf(SquaredNorm(node, Referenced(vec, atBuild)),
                       DotIndet(node, node, undef))
    /\ last' = Op("squaredNorm", "-", "-", 0)
    /\ reads' = DotReads(node, node) /\ calls' = DotCalls
    /\ UNCHANGED <<vec, node, atBuild, pc, undef>>

NormNode ==
    /\ pc = "held"
    /\ ret' = ScalarOf(Norm(node, Referenced(vec, atBuild)),
                       DotIndet(node, node, undef))
    /\ last' = Op("norm", "-", "-", 0)
    /\ reads' = DotReads(node, node) /\ calls' = DotCalls
    /\ UNCHANGED <<vec, node, atBuild, pc, undef>>

\* A statement that changes vector t.
Mutated(o, t, c, s) ==
    /\ pc = "held" /\ pc' = "mutated"
    /\ last' = Op(o, t, c, s)
    /\ UNCHANGED <<node, atBuild>>

\* t.setConstant(s)
SetConstantOp(t, s) ==
    /\ Mutated("setConstant", t, "-", s)
    /\ vec' = SetConstant(vec, t, s)
    /\ undef' = Cleared(undef, t)
    /\ ret' = Ref(t)
    /\ reads' = NoReads /\ calls' = NoCalls

\* t += e, t -= e with e the named node
PlusAssignOp(t) ==
    /\ Mutated("+=", t, "-", 0)
    /\ undef' = AccumulateIndet(undef, t, node)
    /\ vec' = Determinate(OperatorPlusAssign(vec, t, node), undef')
    /\ ret' = Ref(t)
    /\ reads' = ReadsOf(node, <<"x", "y", "z">>)
    /\ calls' = CallsOf(<<"x", "y", "z">>)

MinusAssignOp(t) ==
    /\ Mutated("-=", t, "-", 0)
    /\ undef' = AccumulateIndet(undef, t, node)
    /\ vec' = Determinate(OperatorMinusAssign(vec, t, node), undef')
    /\ ret' = Ref(t)
    /\ reads' = ReadsOf(node, <<"x", "y", "z">>)
    /\ calls' = CallsOf(<<"x", "y", "z">>)

\* t *= s, t /= s
TimesAssignOp(t, s) ==
    /\ Mutated("*=", t, "-", s)
    /\ vec' = OperatorTimesAssign(vec, t, s)
    /\ ret' = Ref(t)
    /\ reads' = NoReads /\ calls' = NoCalls
    /\ UNCHANGED undef

DivAssignOp(t, s) ==
    /\ Mutated("/=", t, "-", s)
    /\ vec' = OperatorDivAssign(vec, t, s)
    /\ ret' = Ref(t)
    /\ reads' = NoReads /\ calls' = NoCalls
    /\ UNCHANGED undef

\* t.x() = s, t.y() = s, t.z() = s: the writable accessor returns a
\* reference to the component, which the assignment writes and returns.
WriteOp(t, c, s) ==
    /\ Mutated("write", t, c, s)
    /\ vec' = WriteAccessor(vec, t, c, s)
    /\ undef' = undef \ {<<t, c>>}
    /\ ret' = CompRef(t, c)
    /\ reads' = NoReads /\ calls' = NoCalls

\* The texts read from a stream.
Streams ==
    {[tokens |-> <<0, 1, -1>>, then |-> "eof"],
     [tokens |-> <<2, -1>>, then |-> "eof"],
     [tokens |-> <<2>>, then |-> "bad"]}

\* stream >> t
StreamInOp(t, in) ==
    /\ Mutated(">>", t, "-", Len(in.tokens))
    /\ vec' = OperatorIn(vec, t, in)
    /\ undef' = undef \ {<<t, StreamOrder[i]>> : i \in Extracted(in)}
    /\ ret' = StreamRef(StreamFailed(in))
    /\ reads' = NoReads /\ calls' = NoCalls

\* t = n
CopyAssignOp(t, n) ==
    /\ Mutated("=", t, n, 0)
    /\ vec' = CopyAssign(vec, t, vec[n])
    /\ undef' = Cleared(undef, t) \cup {<<t, k>> : k \in {c \in Comps : <<n, c>> \in undef}}
    /\ ret' = Ref(t)
    /\ reads' = NoReads /\ calls' = NoCalls

\* t = e with e the named node
AssignExprOp(t) ==
    /\ Mutated("=", t, "-", 0)
    /\ undef' = Cleared(undef, t) \cup {<<t, k>> : k \in FromExprIndet(node, undef)}
    /\ vec' = Determinate(AssignExpr(vec, t, node), undef')
    /\ ret' = Ref(t)
    /\ reads' = ReadsOf(node, CtorCalls) /\ calls' = CallsOf(CtorCalls)

Next ==
    \/ \E e \in HoldExprs : Hold(e)
    \/ \E c \in Comps : Accessor(c)
    \/ \E n \in Names : DotNode(n)
    \/ SquaredNormNode
    \/ NormNode
    \/ \E t \in Names, s \in ArgScalars : SetConstantOp(t, s)
    \/ \E t \in Names : PlusAssignOp(t)
    \/ \E t \in Names : MinusAssignOp(t)
    \/ \E t \in Names, s \in ArgScalars : TimesAssignOp(t, s)
    \/ \E t \in Names, s \in ArgScalars : DivAssignOp(t, s)
    \/ \E t \in Names, c \in Comps, s \in ArgScalars : WriteOp(t, c, s)
    \/ \E t \in Names, in \in Streams : StreamInOp(t, in)
    \/ \E t \in Names, n \in Names : CopyAssignOp(t, n)
    \/ \E t \in Names : AssignExprOp(t)

Spec == Init /\ [][Next]_vars

(***************************************************************************)
(* Claims about single statements (SpecEval).                              *)
(***************************************************************************)
Zero == [x |-> 0, y |-> 0, z |-> 0]

\* How often vector n occurs as an operand in e.
RECURSIVE Occurrences(_, _)
Occurrences(e, n) ==
    CASE e.op = "vec" -> IF e.name = n THEN 1 ELSE 0
      [] e.op = "stale" -> 0
      [] e.op \in {"sum", "diff"} -> Occurrences(e.l, n) + Occurrences(e.r, n)
      [] e.op \in {"neg", "mult", "div"} -> Occurrences(e.v, n)
      [] e.op = "cross" -> Occurrences(e.a, n) + Occurrences(e.b, n)

RECURSIVE HasCross(_)
HasCross(e) ==
    CASE e.op \in {"vec", "stale"} -> FALSE
      [] e.op \in {"sum", "diff"} -> HasCross(e.l) \/ HasCross(e.r)
      [] e.op \in {"neg", "mult", "div"} -> HasCross(e.v)
      [] e.op = "cross" -> TRUE

\* e has no cross product and no vector occurs in it more than once.
EachOperandOnce(e) == ~HasCross(e) /\ \A n \in Names : Occurrences(e, n) <= 1

\* The value part of C1: for a + b * 2 - c the new vector holds
\* a.k + b.k * 2 - c.k in component k.
ChainedValueStored ==
    node = Chained(A, B, C) =>
        /\ ret.kind = "vector" /\ ret.ind = {}
        /\ \A k \in Comps :
              ret.val[k] = vec["a"][k] + vec["b"][k] * 2 - vec["c"][k]

\* C1 as stated: constructing a vector from any expression invokes the
\* expression's x(), y() and z() once each and thereby reads every component
\* of every operand once; for a + b * 2 - c it stores a.k + b.k * 2 - c.k.
C1_AnyExpressionReadsOnce ==
    last.op = "construct" =>
        /\ \A k \in Comps : calls[k] = 1
        /\ \A n \in Operands(node), k \in Comps : reads[n, k] = 1
        /\ ChainedValueStored

\* C1 amended: constructing a vector from any expression invokes the
\* expression's x(), y() and z() once each; when the expression has no cross
\* product and no operand occurs in it twice, every component of every
\* operand is read once; for a + b * 2 - c it stores a.k + b.k * 2 - c.k.
C1_ConstructEvaluatesOnce ==
    last.op = "construct" =>
        /\ \A k \in Comps : calls[k] = 1
        /\ EachOperandOnce(node) =>
              \A n \in Operands(node), k \in Comps : reads[n, k] = 1
        /\ ChainedValueStored

C1_Witness ==
    /\ last.op = "construct" /\ node = Chained(A, B, C)
    /\ EachOperandOnce(node)
    /\ vec["a"] = Vector3D_XYZ(1, -1, 0) /\ vec["b"] = Vector3D_XYZ(0, 1, 1)
    /\ vec["c"] = Vector3D_Value(1)
    /\ \A k \in Comps : calls[k] = 1
    /\ \A n \in Names, k \in Comps : reads[n, k] = 1
    /\ ret.val = Vector3D_XYZ(0, 0, 1)

\* C2: a.cross(b) has the components (a.y*b.z - b.y*a.z, a.z*b.x - b.z*a.x,
\* a.x*b.y - b.x*a.y); it is the component-wise negation of b.cross(a);
\* a.cross(a) is zero; (1,2,3).cross((4,5,6)) is (-3,6,-3).
C2_CrossProduct ==
    LET a == vec["a"]
        b == vec["b"]
        ba == Vector3D_FromExpr(Cross(B, A), vec)
    IN  /\ (last.op = "construct" /\ node = Cross(A, B)) =>
              /\ ret.val = Vector3D_XYZ(a.y * b.z - b.y * a.z,
                                        a.z * b.x - b.z * a.x,
                                        a.x * b.y - b.x * a.y)
              /\ \A k \in Comps : ret.val[k] = -ba[k]
              /\ (a = Vector3D_XYZ(1, 2, 3) /\ b = Vector3D_XYZ(4, 5, 6))
                    => ret.val = Vector3D_XYZ(-3, 6, -3)
        /\ (last.op = "construct" /\ node = Cross(A, A)) => ret.val = Zero

C2_Witness ==
    /\ last.op = "construct" /\ node = Cross(A, B)
    /\ vec["a"] = Vector3D_XYZ(1, 2, 3) /\ vec["b"] = Vector3D_XYZ(4, 5, 6)
    /\ ret.val = Vector3D_XYZ(-3, 6, -3)

\* C3: unary minus yields the element-wise negation of the operand passed
\* to it.
C3_NegationOfOperand ==
    last.op = "negate" =>
        /\ ret.kind = "vector" /\ ret.ind = {}
        /\ \A k \in Comps : ret.val[k] = -vec[last.target][k]

\* C4: a == b returns true if and only if the three components of a equal
\* those of b.
C4_EqualityComponentWise ==
    last.op = "==" =>
        /\ ret.kind = "bool"
        /\ ret.val = (\A k \in Comps : vec[last.target][k] = vec[last.c][k])

\* C6: (a + b) + c has the same components as a + (b + c), and a + b the
\* same components as b + a.
C6_SumAssociativeCommutative ==
    /\ (last.op = "construct" /\ node = OperatorPlus(OperatorPlus(A, B), C)) =>
          ret.val = Vector3D_FromExpr(OperatorPlus(A, OperatorPlus(B, C)), vec)
    /\ (last.op = "construct" /\ node = OperatorPlus(A, OperatorPlus(B, C))) =>
          ret.val = Vector3D_FromExpr(OperatorPlus(OperatorPlus(A, B), C), vec)
    /\ (last.op = "construct" /\ node = OperatorPlus(A, B)) =>
          ret.val = Vector3D_FromExpr(OperatorPlus(B, A), vec)

C6_Witness ==
    /\ last.op = "construct" /\ node = OperatorPlus(OperatorPlus(A, B), C)
    /\ vec["a"] = Vector3D_XYZ(-1, 1, 0) /\ vec["b"] = Vector3D_XYZ(1, 1, 0)
    /\ vec["c"] = Vector3D_Value(1)
    /\ ret.val = Vector3D_XYZ(1, 3, 1)

\* C7: v.normalized() leaves every vector as it was and returns the vector
\* (v.x / n, v.y / n, v.z / n), n being the norm of v.
C7_NormalizedFrame ==
    last.op = "normalized" =>
        LET v == atBuild[last.target]
            n == ISqrt(v.x * v.x + v.y * v.y + v.z * v.z)
        IN  /\ vec = atBuild
            /\ n # 0 => ret = Vector(Vector3D_XYZ(TruncDiv(v.x, n), TruncDiv(v.y, n),
                                                  TruncDiv(v.z, n)))

C7_Witness ==
    /\ last.op = "normalized" /\ last.target = "a"
    /\ vec["a"] = Vector3D_XYZ(1, 2, 3)
    /\ ret = Vector(Vector3D_XYZ(0, 0, 1))

(***************************************************************************)
(* Claims about named nodes and mutation (Spec).                           *)
(***************************************************************************)
\* Vector n is changed by the step taken.
Changed(n) ==
    \/ vec'[n] # vec[n]
    \/ {p \in undef' : p[1] = n} # {p \in undef : p[1] = n}

\* v op= e for the step taken: the new value of v is the old one plus
\* (sign = 1) or minus (sign = -1) e evaluated on the store before the step;
\* where e is indeterminate, so is the new value.
AccumulatedFromBefore(sign) ==
    \A k \in Comps :
        IF Indet(node, k, undef)
        THEN <<last'.target, k>> \in undef'
        ELSE /\ <<last'.target, k>> \notin undef'
             /\ vec'[last'.target][k]
                   = vec[last'.target][k] + sign * Comp(node, k, vec)

\* C5: for e built from vectors other than v, v += e (v -= e) leaves each
\* component of v equal to its previous value plus (minus) that component of
\* e, returns a reference to v, and leaves every other vector unchanged.
C5_AccumulateInPlace ==
    [][(last'.op \in {"+=", "-="} /\ last'.target \notin Operands(node)) =>
          /\ AccumulatedFromBefore(IF last'.op = "+=" THEN 1 ELSE -1)
          /\ ret' = Ref(last'.target)
          /\ \A n \in Names \ {last'.target} :
                vec'[n] = vec[n] /\ ~Changed(n)]_vars

C5_Witness ==
    /\ last.op = "+=" /\ last.target = "c" /\ node = Cross(A, B)
    /\ atBuild["a"] = Vector3D_XYZ(1, 2, 3) /\ atBuild["b"] = Vector3D_XYZ(4, 5, 6)
    /\ vec["c"] = Vector3D_XYZ(-3, 6, -3)
    /\ ret = Ref("c")
    /\ vec["a"] = atBuild["a"] /\ vec["b"] = atBuild["b"]

\* The operations C8 lists; stream >> v writes v through its writable
\* accessors.
ListedOps == {"setConstant", "+=", "-=", "*=", "/=", "write", ">>"}

\* C8 as stated: reading a node (x(), y(), z(), dot, squaredNorm, norm) or
\* building one changes no concrete vector; a vector changes only by its own
\* setConstant, +=, -=, *=, /= or writable accessors.
C8_OnlyListedMutatorsWrite ==
    [][\A n \in Names :
          Changed(n) => (last'.op \in ListedOps /\ last'.target = n)]_vars

\* C8 amended: reading or building a node changes no concrete vector; a
\* vector changes only by its own setConstant, +=, -=, *=, /=, writable
\* accessors or copy assignment (v = w, v = e), and each of these changes
\* only the vector it is invoked on.
C8_OnlyOwnMutatorsWrite ==
    [][\A n \in Names :
          Changed(n) => (last'.op \in ListedOps \cup {"="} /\ last'.target = n)]_vars

C8_Witness ==
    /\ pc = "mutated" /\ last.op = "=" /\ last.target = "c" /\ last.c = "-"
    /\ node = OperatorPlus(A, B)
    /\ atBuild["a"] = Vector3D_XYZ(1, 2, 3) /\ atBuild["b"] = Vector3D_XYZ(4, 5, 6)
    /\ vec["c"] = Vector3D_XYZ(5, 7, 9) /\ atBuild["c"] = Zero
    /\ vec["a"] = atBuild["a"] /\ vec["b"] = atBuild["b"]

\* C9: an accessor of a named node returns the value computed from the
\* operands as they are when it is called.
C9_NoCaching ==
    (last.op = "accessor" /\ \A k \in Comps : ~Indet(node, k, undef)) =>
        /\ ret = Scalar(Comp(node, last.c, vec))
        /\ node = OperatorPlus(A, B) =>
              ret.val = vec["a"][last.c] + vec["b"][last.c]
        /\ (node = Cross(A, B) /\ last.c = "x") =>
              ret.val = vec["a"].y * vec["b"].z - vec["b"].y * vec["a"].z

C9_Witness ==
    /\ pc = "mutated" /\ last.op = "accessor" /\ last.c = "x"
    /\ node = OperatorPlus(A, B)
    /\ vec["a"].x # atBuild["a"].x
    /\ ret.val = vec["a"].x + vec["b"].x
    /\ ret.val # atBuild["a"].x + atBuild["b"].x

\* C10 as stated: for any e, also one that refers to v, v += e (v -= e)
\* adds (subtracts) e as evaluated on the state before the operation.
C10_AnyExpression ==
    [][(last'.op \in {"+=", "-="} /\ ~HasStale(node)) =>
          AccumulatedFromBefore(IF last'.op = "+=" THEN 1 ELSE -1)]_vars

\* e.y() reads v.x, or e.z() reads v.x or v.y: components of v that are
\* already updated when that accessor runs.
ReadsUpdated(e, v) ==
    \/ ReadCount(e, "y", v, "x") > 0
    \/ ReadCount(e, "z", v, "x") > 0
    \/ ReadCount(e, "z", v, "y") > 0

\* C10 amended: the same, for every e whose y() does not read v.x and whose
\* z() reads neither v.x nor v.y.
C10_NoReadOfUpdated ==
    [][(last'.op \in {"+=", "-="} /\ ~ReadsUpdated(node, last'.target)) =>
          AccumulatedFromBefore(IF last'.op = "+=" THEN 1 ELSE -1)]_vars

C10_Witness ==
    /\ last.op = "-=" /\ last.target = "a" /\ node = OperatorPlus(A, Cross(B, C))
    /\ "a" \in Operands(node) /\ ~ReadsUpdated(node, "a")
    /\ atBuild["a"] = Vector3D_XYZ(1, 2, 3) /\ atBuild["b"] = Vector3D_XYZ(4, 5, 6)
    /\ vec["a"] = Zero

====
